---- MODULE Spec2Model ----
(***************************************************************************)
(* Query understanding and specialist routing of the travel agent:         *)
(* utils/intent.py (classifiers), core/llm.py (extract_json) and           *)
(* agents/orchestrator.py (specialist cache and routing).                  *)
(*                                                                         *)
(* Python values that flow through the code are modelled as records        *)
(*   [t, s, items, f]                                                      *)
(* t: the Python type ("str", "num", "null", "bool", "list", "obj"),       *)
(* s: the text of a scalar, items: the elements of a list (the modes of    *)
(* the sub-intents), f: the key -> value mapping of a dict.                *)
(* Text returned by the Completion Service is a sequence of tokens:        *)
(* whitespace, a ``` fence, the word json, other text, or the text of one  *)
(* JSON value.                                                             *)
(***************************************************************************)
EXTENDS Integers, Sequences, FiniteSets, TLC

VARIABLES
    op,         \* pure-function check: the component under test
    resp,       \* pure-function check: the Completion Service response
    out,        \* pure-function check: what the component produced
    agentCache, \* orchestrator._agent_cache: cache key -> handle
    multiCache, \* orchestrator._multi_orchestrator_cache: handle or NoHandle
    nextId,     \* identity of the next object constructed
    built,      \* history: cache key -> ids of the handles constructed for it
                \* since the last clear, in order
    served,     \* history: (mode, deployment_name) -> handles returned for it
                \* since the last clear
    calls,      \* history: number of calls made so far
    cleared,    \* history: clear_agent_cache has returned at least once
    pc,         \* per thread: position in the code
    loc,        \* per thread: the locals of the running call
    ret,        \* how the call that ended last ended, until the next call starts
    catalog,    \* the rows of the Catalog Store (places, accommodations)
    call        \* the arguments of the call of a retrieval or geo function

vars ==
    <<op, resp, out, agentCache, multiCache, nextId, built, served, calls, cleared,
      pc, loc, ret, catalog, call>>
callVars == <<catalog, call>>
pureVars == <<op, resp, out, catalog, call>>
shared == <<agentCache, multiCache, nextId, built, served>>
routeVars ==
    <<agentCache, multiCache, nextId, built, served, calls, cleared, pc, loc, ret>>

(***************************************************************************)
(* Bounds                                                                  *)
(***************************************************************************)
\* longest Completion Service response, in tokens
MaxTokens == 3
\* number of handles constructed in one run
MaxHandles == 3
\* number of calls made in one run
MaxCalls == 3
\* catalog rows of freely chosen kinds
MaxVaried == 2
\* further catalog rows, all alike and well formed
MaxFill == 5
\* items given to find_nearby, rows of places and of accommodations
MaxItems == 3
\* calls of retrieve_places made between a call and its repetition
MaxBetween == 2

(***************************************************************************)
(* Python / JSON values                                                    *)
(***************************************************************************)
EmptyFn == [k \in {} |-> 0]

JStr(s) == [t |-> "str", s |-> s, items |-> <<>>, f |-> EmptyFn]
JNum(s) == [t |-> "num", s |-> s, items |-> <<>>, f |-> EmptyFn]
JNull == [t |-> "null", s |-> "None", items |-> <<>>, f |-> EmptyFn]
JTrue == [t |-> "bool", s |-> "True", items |-> <<>>, f |-> EmptyFn]
JFalse == [t |-> "bool", s |-> "False", items |-> <<>>, f |-> EmptyFn]
JList(items) == [t |-> "list", s |-> "", items |-> items, f |-> EmptyFn]
JObj(f) == [t |-> "obj", s |-> "", items |-> <<>>, f |-> f]
EmptyDict == JObj(EmptyFn)

\* bool(v)
Truthy(v) ==
    CASE v.t = "str" -> v.s # ""
      [] v.t = "num" -> v.s # "0"
      [] v.t = "null" -> FALSE
      [] v.t = "bool" -> v.s = "True"
      [] v.t = "list" -> v.items # <<>>
      [] OTHER -> DOMAIN v.f # {}

\* hash(v) is defined: lists and dicts are unhashable
Hashable(v) == v.t \notin {"list", "obj"}

\* dict.get(key, default)
Get(d, key, default) == IF key \in DOMAIN d.f THEN d.f[key] ELSE default

(***************************************************************************)
(* LLMService.extract_json                                                 *)
(***************************************************************************)
Tok(k, v) == [k |-> k, v |-> v]
WS == Tok("ws", JNull)
Fence == Tok("fence", JNull)
JsonWord == Tok("word", JNull)
Junk == Tok("junk", JNull)
JsonText(v) == Tok("json", v)

NoneContent == [none |-> TRUE, toks |-> <<>>]
Text(toks) == [none |-> FALSE, toks |-> toks]

RECURSIVE LStrip(_)
LStrip(s) == IF s # <<>> /\ Head(s).k = "ws" THEN LStrip(Tail(s)) ELSE s

RECURSIVE RStrip(_)
RStrip(s) ==
    IF s # <<>> /\ s[Len(s)].k = "ws" THEN RStrip(SubSeq(s, 1, Len(s) - 1)) ELSE s

\* str.strip()
Strip(s) == RStrip(LStrip(s))

\* str.split("```"): the text before the first fence and the rest
RECURSIVE UpToFence(_)
UpToFence(s) ==
    IF s = <<>> \/ Head(s).k = "fence" THEN <<>>
    ELSE <<Head(s)>> \o UpToFence(Tail(s))

RECURSIVE SplitFence(_)
SplitFence(s) ==
    LET first == UpToFence(s)
    IN IF Len(first) = Len(s) THEN <<first>>
       ELSE <<first>> \o SplitFence(SubSeq(s, Len(first) + 2, Len(s)))

\* json.loads: one JSON value, whitespace around it allowed
JsonLoads(s) ==
    LET core == Strip(s)
    IN IF Len(core) = 1 /\ core[1].k = "json"
       THEN [ok |-> TRUE, v |-> core[1].v]
       ELSE [ok |-> FALSE, v |-> EmptyDict]

StripFences(content) ==
    IF content # <<>> /\ content[1].k = "fence"
    THEN LET parts == SplitFence(content)
         IN IF Len(parts) >= 2
            THEN LET inner == parts[2]
                     body == IF inner # <<>> /\ inner[1].k = "word"
                             THEN Tail(inner) ELSE inner
                 IN Strip(body)
            ELSE content
    ELSE content

ExtractJson(content) ==
    IF content.none \/ content.toks = <<>> THEN EmptyDict
    ELSE LET parsed == JsonLoads(StripFences(Strip(content.toks)))
         IN IF parsed.ok THEN parsed.v ELSE EmptyDict

(***************************************************************************)
(* utils/intent.py                                                         *)
(***************************************************************************)
valid_modes ==
    {"itinerary", "suggest_places", "describe_place", "activity_focused",
     "comparison", "find_accommodation"}

\* the membership test done on the lower-cased mode
InValidModesAnyCase(mode) ==
    mode.t = "str" /\ (mode.s \in valid_modes \/ mode.s = "Comparison")

\* mode not in valid_modes, for a hashable mode
InValidModes(mode) == mode.t = "str" /\ mode.s \in valid_modes

Raised(exc) == [exc |-> exc]

ExtractIntent(content) ==
    LET extracted == ExtractJson(content)
        activities == Get(extracted, "activities", JNull)
    IN IF extracted.t # "obj" THEN Raised("AttributeError")
       ELSE [exc |-> "none",
             place_name |-> Get(extracted, "place_name", JNull),
             region |-> Get(extracted, "region", JNull),
             country |-> Get(extracted, "country", JNull),
             category |-> Get(extracted, "category", JNull),
             activities |-> IF Truthy(activities) THEN activities ELSE JList(<<>>),
             days |-> Get(extracted, "days", JNull)]

ClassifyGenerationMode(content) ==
    LET result == ExtractJson(content)
    IN IF result.t # "obj" THEN Raised("AttributeError")
       ELSE LET mode == Get(result, "generation_mode", JStr("itinerary"))
            IN IF ~Hashable(mode) THEN Raised("TypeError")
               ELSE [exc |-> "none",
                     generation_mode |->
                         IF InValidModes(mode) THEN mode ELSE JStr("itinerary"),
                     days |-> Get(result, "days", JNull)]

ClassifyMultiIntent(content) ==
    LET result == ExtractJson(content)
    IN IF result.t # "obj" THEN Raised("AttributeError")
       ELSE [exc |-> "none",
             is_multi_intent |-> Get(result, "is_multi_intent", JFalse),
             primary_intent |-> Get(result, "primary_intent", JStr("itinerary")),
             intents |-> Get(result, "intents", JList(<<>>))]

(***************************************************************************)
(* agents/factory.py                                                       *)
(***************************************************************************)
GenerationMode ==
    {"itinerary", "suggest_places", "describe_place", "activity_focused",
     "comparison", "find_accommodation"}

\* class GenerationMode(Enum): the members, in the order of their definition
GenerationModeMembers ==
    <<[name |-> "ITINERARY", value |-> "itinerary"],
      [name |-> "SUGGEST_PLACES", value |-> "suggest_places"],
      [name |-> "DESCRIBE_PLACE", value |-> "describe_place"],
      [name |-> "ACTIVITY_FOCUSED", value |-> "activity_focused"],
      [name |-> "COMPARISON", value |-> "comparison"],
      [name |-> "FIND_ACCOMMODATION", value |-> "find_accommodation"]>>

\* MODE_CONFIGS[mode]["description"]; a mode without a configuration raises
ModeDescription(value) ==
    CASE value = "itinerary" -> "Creates day-by-day travel itineraries"
      [] value = "suggest_places" ->
            "Suggests travel destinations based on preferences"
      [] value = "describe_place" ->
            "Provides detailed information about specific places"
      [] value = "activity_focused" -> "Plans trips around specific activities"
      [] value = "comparison" -> "Compares multiple destinations side-by-side"
      [] value = "find_accommodation" ->
            "Finds hotels, hostels, and resorts near places or in specific areas"
      [] OTHER -> "KeyError"

\* list_available_modes
ListAvailableModes ==
    LET entries == [i \in DOMAIN GenerationModeMembers |->
                       [mode |-> GenerationModeMembers[i].name,
                        value |-> GenerationModeMembers[i].value,
                        description |->
                            ModeDescription(GenerationModeMembers[i].value)]]
    IN IF \E i \in DOMAIN entries : entries[i].description = "KeyError"
       THEN [exc |-> "KeyError", modes |-> <<>>]
       ELSE [exc |-> "none", modes |-> entries]

\* STANDALONE_AGENT_FACTORIES: the specialist of each generation mode
StandaloneFactory(mode) ==
    CASE mode = "itinerary" -> "itinerary"
      [] mode \in {"suggest_places", "describe_place"} -> "places"
      [] mode = "activity_focused" -> "activity"
      [] mode = "comparison" -> "comparison"
      [] mode = "find_accommodation" -> "accommodation"
      [] OTHER -> "none"

(***************************************************************************)
(* Completion Service responses the classifiers are checked on             *)
(***************************************************************************)
SeqsUpTo(S, n) == UNION {[1..k -> S] : k \in 0..n}

\* every text of at most MaxTokens tokens around the JSON value v, and no text
ResponsesWith(v) ==
    {NoneContent} \cup
    {Text(s) : s \in SeqsUpTo({WS, Fence, JsonWord, Junk, JsonText(v)}, MaxTokens)}

\* dicts with any subset of the keys K, the value of key k drawn from V[k]
DictsOver(K, V) ==
    UNION {{JObj(f) : f \in {g \in [D -> UNION {V[k] : k \in D}] :
                               \A k \in D : g[k] \in V[k]}} : D \in SUBSET K}

NonObjects == {JList(<<>>), JNum("3"), JNull, JStr("itinerary"), JTrue}

ModeReplies ==
    DictsOver({"generation_mode", "days"},
              [generation_mode |->
                   {JStr("itinerary"), JStr("comparison"), JStr("find_accommodation"),
                    JStr("Comparison"), JStr("bogus"), JStr(""), JNum("3"), JNull,
                    JTrue, JList(<<"itinerary">>), EmptyDict},
               days |-> {JNum("3"), JNull}])
    \cup NonObjects

MultiReplies ==
    DictsOver({"is_multi_intent", "primary_intent", "intents"},
              [is_multi_intent |-> {JTrue, JFalse, JStr("false"), JNull},
               primary_intent |->
                   {JStr("itinerary"), JStr("describe_place"), JStr("bogus"),
                    JStr(""), JNull},
               intents |->
                   {JList(<<>>), JList(<<"itinerary">>),
                    JList(<<"find_accommodation", "describe_place">>), JNull}])
    \cup NonObjects

IntentReplies ==
    DictsOver({"place_name", "activities", "days"},
              [place_name |-> {JStr("Doi Suthep"), JNull},
               activities |-> {JList(<<"hiking">>), JList(<<>>), JNull, JStr("hiking")},
               days |-> {JNum("3"), JNull}])
    \cup NonObjects

Pending == [exc |-> "pending"]

\* no retrieval or geo call is being made
NoCall == [fn |-> "none"]

EmptyCatalog == [places |-> <<>>, accommodations |-> <<>>]

\* a latitude or longitude: a number of degrees, or None / NULL
Coord(deg) == [t |-> "float", deg |-> deg]
NoneCoord == [t |-> "null", deg |-> 0]

(***************************************************************************)
(* config/settings.py, core/models.py, agents/generators                   *)
(***************************************************************************)
MODEL_CONFIGS ==
    {"gpt-4.1-mini", "gpt-5-mini", "DeepSeek-V3.1", "gpt-4.1-nano",
     "gpt-4o-mini-tts-2"}

\* os.getenv("AZURE_OPENAI_DEPLOYMENT_NAME", "gpt-4.1-mini")
EnvDeployment == "gpt-4.1-mini"

\* str(v), as an f-string formats it
PyStr(v) ==
    CASE v.t \in {"str", "num", "null", "bool"} -> v.s
      [] v.t = "list" -> IF v.items = <<>> THEN "[]" ELSE "[...]"
      [] OTHER -> "{}"

GetAzureModelConfig(deployment_name) ==
    LET deployment == IF Truthy(deployment_name) THEN PyStr(deployment_name)
                      ELSE EnvDeployment
    IN IF deployment \notin MODEL_CONFIGS
       THEN [exc |-> "ValueError", model_id |-> ""]
       ELSE [exc |-> "none", model_id |-> deployment]

NoHandle == [id |-> 0, kind |-> "none", dep |-> ""]

\* the create_*_agent functions whose signature has name and description
AcceptsName == {"activity", "comparison"}

\* create_<kind>_agent(deployment_name[, name=..., description=...])
CreateAgent(kind, deployment_name, named, id) ==
    LET config == GetAzureModelConfig(deployment_name)
    IN IF named /\ kind \notin AcceptsName
       THEN [exc |-> "TypeError", handle |-> NoHandle]
       ELSE IF config.exc # "none"
       THEN [exc |-> config.exc, handle |-> NoHandle]
       ELSE [exc |-> "none",
             handle |-> [id |-> id, kind |-> kind, dep |-> config.model_id]]

(***************************************************************************)
(* agents/multi_orchestrator.py                                            *)
(***************************************************************************)
managed_specialists ==
    <<"itinerary", "places", "accommodation", "activity", "comparison">>

CreateMultiAgentOrchestrator(deployment_name, id) ==
    LET config == GetAzureModelConfig(deployment_name)
        made == [i \in DOMAIN managed_specialists |->
                    CreateAgent(managed_specialists[i], deployment_name, TRUE, id)]
        failed == {i \in DOMAIN made : made[i].exc # "none"}
    IN IF config.exc # "none"
       THEN [exc |-> config.exc, handle |-> NoHandle]
       ELSE IF failed # {}
       THEN [exc |-> made[CHOOSE i \in failed : \A j \in failed : i <= j].exc,
             handle |-> NoHandle]
       ELSE [exc |-> "none",
             handle |-> [id |-> id, kind |-> "multi", dep |-> config.model_id]]

(***************************************************************************)
(* agents/orchestrator.py                                                  *)
(***************************************************************************)
Threads == {"t1", "t2"}

\* the threads that serve routed requests; the others resolve specialists
\* and clear the cache
RouteThreads == {"t1"}

\* f"{mode}_{deployment_name or 'default'}"
CacheKey(mode, deployment_name) ==
    PyStr(mode) \o "_" \o
    (IF Truthy(deployment_name) THEN PyStr(deployment_name) ELSE "default")

IsStr(v, s) == v.t = "str" /\ v.s = s

\* the if / elif chain of get_or_create_specialist
FactoryOf(mode) ==
    IF IsStr(mode, "itinerary") THEN "itinerary"
    ELSE IF IsStr(mode, "suggest_places") \/ IsStr(mode, "describe_place") THEN "places"
    ELSE IF IsStr(mode, "find_accommodation") THEN "accommodation"
    ELSE IF IsStr(mode, "activity_focused") THEN "activity"
    ELSE IF IsStr(mode, "comparison") THEN "comparison"
    ELSE "itinerary"

\* cache_key not in _agent_cache
CacheMissAlways(key) == TRUE

CacheMiss(key) == key \notin DOMAIN agentCache

\* if explicit_mode: (route_to_specialist)
UseExplicitModeNever(explicit_mode) == FALSE

UseExplicitMode(explicit_mode) == Truthy(explicit_mode)

\* if explicit_mode: (route_multi_intent)
SkipDetection(explicit_mode) == Truthy(explicit_mode)

IdleLoc ==
    [fn |-> "", arg |-> JNull, dep |-> JNull, mode |-> JNull, classified |-> 0,
     decomposed |-> 0, path |-> "", intents |-> JNull, constructed |-> FALSE]

\* api.py: TravelResponse(query=..., response=..., mode=..., success=...,
\* error=...); error is str(e), given by the name of the exception
TravelResponse(response, mode, success, error) ==
    [made |-> TRUE, response |-> response, mode |-> mode, success |-> success,
     error |-> error]

\* the call is not one of the POST /query handler
NoResponse ==
    [made |-> FALSE, response |-> "", mode |-> "", success |-> FALSE,
     error |-> "None"]

\* the text specialist.run(query) returns
Answer == "answer"

NoRet ==
    [status |-> "none", exc |-> "none", fn |-> "", arg |-> JNull, dep |-> JNull,
     mode |-> JNull, mode_used |-> JNull, handle |-> NoHandle, ran |-> <<>>,
     classified |-> 0, decomposed |-> 0, path |-> "", intents |-> JNull,
     constructed |-> FALSE, reply |-> NoResponse]

InitRoute ==
    /\ agentCache = EmptyFn
    /\ multiCache = NoHandle
    /\ nextId = 1
    /\ built = EmptyFn
    /\ served = EmptyFn
    /\ calls = 0
    /\ cleared = FALSE
    /\ pc = [t \in Threads |-> "idle"]
    /\ loc = [t \in Threads |-> IdleLoc]
    /\ ret = NoRet

(***************************************************************************)
(* The classifiers applied to one response                                 *)
(***************************************************************************)
InitIntent ==
    /\ \/ /\ op \in {"extract_intent", "classify_generation_mode",
                      "classify_multi_intent"}
          /\ \E v \in CASE op = "extract_intent" -> IntentReplies
                        [] op = "classify_generation_mode" -> ModeReplies
                        [] OTHER -> MultiReplies :
                resp \in ResponsesWith(v)
       \/ /\ op = "list_available_modes"
          /\ resp = NoneContent
    /\ out = Pending
    /\ catalog = EmptyCatalog
    /\ call = NoCall
    /\ InitRoute

ExtractIntentCall ==
    /\ op = "extract_intent"
    /\ out = Pending
    /\ out' = ExtractIntent(resp)
    /\ UNCHANGED <<op, resp, callVars, routeVars>>

ClassifyGenerationModeCall ==
    /\ op = "classify_generation_mode"
    /\ out = Pending
    /\ out' = ClassifyGenerationMode(resp)
    /\ UNCHANGED <<op, resp, callVars, routeVars>>

ClassifyMultiIntentCall ==
    /\ op = "classify_multi_intent"
    /\ out = Pending
    /\ out' = ClassifyMultiIntent(resp)
    /\ UNCHANGED <<op, resp, callVars, routeVars>>

ListAvailableModesCall ==
    /\ op = "list_available_modes"
    /\ out = Pending
    /\ out' = ListAvailableModes
    /\ UNCHANGED <<op, resp, callVars, routeVars>>

NextIntent ==
    \/ ListAvailableModesCall
    \/ ExtractIntentCall
    \/ ClassifyGenerationModeCall
    \/ ClassifyMultiIntentCall

SpecIntent == InitIntent /\ [][NextIntent]_vars

(***************************************************************************)
(* Calls into agents/orchestrator.py, one thread per request               *)
(***************************************************************************)
ModeArgs == {JStr("itinerary"), JStr("describe_place"), JStr("bogus")}
ExplicitArgs == {JNull, JStr("")} \cup ModeArgs
DepArgs == {JNull, JStr("gpt-5-mini"), JStr("nope"), JStr("default")}

\* what the Completion Service answers to the Mode Classifier's prompt
RouterModeReplies ==
    {Text(<<Junk>>)} \cup
    {Text(<<JsonText(v)>>) :
        v \in {JObj([generation_mode |-> JStr("describe_place")]), JList(<<>>)}}

\* what the Completion Service answers to the Decomposer's prompt
RouterMultiReplies ==
    {Text(<<Junk>>)} \cup
    {Text(<<JsonText(v)>>) :
        v \in {JObj([is_multi_intent |-> JTrue,
                     primary_intent |-> JStr("find_accommodation"),
                     intents |-> JList(<<"find_accommodation", "describe_place">>)]),
               JObj([is_multi_intent |-> JTrue]),
               JObj([is_multi_intent |-> JFalse,
                     primary_intent |-> JStr("describe_place"),
                     intents |-> JList(<<"describe_place">>)]),
               JObj([is_multi_intent |-> JFalse, primary_intent |-> JNull]),
               JObj([is_multi_intent |-> JFalse, primary_intent |-> JStr("")]),
               JObj([is_multi_intent |-> JFalse, primary_intent |-> JStr("bogus")]),
               JNum("3")}}

\* the managed specialists the orchestrator's model decides to call
OrchestratorPlans == SeqsUpTo({"places", "accommodation"}, 2)

Init ==
    /\ op = "none"
    /\ resp = NoneContent
    /\ out = Pending
    /\ catalog = EmptyCatalog
    /\ call = NoCall
    /\ InitRoute

\* a call starts on an idle thread
Begin(t) ==
    /\ pc[t] = "idle"
    /\ calls < MaxCalls
    /\ calls' = calls + 1
    /\ UNCHANGED cleared

\* api.py query_travel_agent: an exception of the route is let through
ExceptNothing(fn, status) == FALSE

\* api.py query_travel_agent: except Exception as e
ExceptException(fn, status) == fn = "query_travel_agent" /\ status = "raised"

\* the call on thread t ends: it returns or raises; the POST /query handler
\* returns a TravelResponse for what route_to_specialist returned or raised
Done(t, l, status, exc, mode_used, handle, ran) ==
    /\ pc' = [pc EXCEPT ![t] = "idle"]
    /\ loc' = [loc EXCEPT ![t] = IdleLoc]
    /\ ret' = [status |-> IF ExceptException(l.fn, status) THEN "returned"
                          ELSE status,
               exc |-> IF ExceptException(l.fn, status) THEN "none" ELSE exc,
               fn |-> l.fn, arg |-> l.arg,
               dep |-> l.dep, mode |-> l.mode, mode_used |-> mode_used,
               handle |-> handle, ran |-> ran, classified |-> l.classified,
               decomposed |-> l.decomposed, path |-> l.path,
               intents |-> l.intents, constructed |-> l.constructed,
               reply |->
                   IF l.fn # "query_travel_agent" THEN NoResponse
                   ELSE IF status = "raised"
                   THEN TravelResponse("", "error", FALSE, exc)
                   ELSE TravelResponse(Answer, PyStr(mode_used), TRUE, "None")]

\* get_or_create_specialist, up to the test of the cache
Lookup(t, l) ==
    /\ pc' = [pc EXCEPT ![t] =
                 IF CacheMiss(CacheKey(l.mode, l.dep)) THEN "goc_create"
                 ELSE "goc_return"]
    /\ loc' = [loc EXCEPT ![t] = l]
    /\ ret' = NoRet

\* route_to_specialist, up to the test of the cache
RouteToSpecialist(t, l, explicit_mode) ==
    IF UseExplicitMode(explicit_mode)
    THEN Lookup(t, [l EXCEPT !.mode = explicit_mode])
    ELSE \E reply \in RouterModeReplies :
            LET classification == ClassifyGenerationMode(reply)
                l2 == [l EXCEPT !.classified = @ + 1]
            IN IF classification.exc # "none"
               THEN Done(t, l2, "raised", classification.exc, JNull, NoHandle, <<>>)
               ELSE Lookup(t, [l2 EXCEPT !.mode = classification.generation_mode])

\* the multi-agent branch of route_multi_intent
RunMultiOrchestrator(t, l, dep) ==
    LET made == CreateMultiAgentOrchestrator(dep, nextId)
        orchestrator == IF multiCache = NoHandle THEN made.handle ELSE multiCache
    IN IF multiCache = NoHandle /\ made.exc # "none"
       THEN /\ Done(t, l, "raised", made.exc, JNull, NoHandle, <<>>)
            /\ UNCHANGED shared
       ELSE /\ multiCache' = orchestrator
            /\ nextId' = IF multiCache = NoHandle THEN nextId + 1 ELSE nextId
            /\ UNCHANGED <<agentCache, built, served>>
            /\ \E plan \in OrchestratorPlans, ok \in BOOLEAN :
                  IF ok
                  THEN Done(t, l, "returned", "none", JStr("multi-agent"),
                            orchestrator, plan)
                  ELSE Done(t, l, "raised", "AgentError", JNull, orchestrator, plan)

CallGetOrCreateSpecialist(t) ==
    /\ Begin(t)
    /\ \E mode \in ModeArgs, dep \in DepArgs :
          Lookup(t, [IdleLoc EXCEPT !.fn = "get_or_create_specialist",
                                    !.arg = mode, !.dep = dep, !.mode = mode])
    /\ UNCHANGED <<shared, pureVars>>

CallRouteToSpecialist(t) ==
    /\ t \in RouteThreads
    /\ Begin(t)
    /\ \E explicit_mode \in ExplicitArgs, dep \in DepArgs :
          RouteToSpecialist(t, [IdleLoc EXCEPT !.fn = "route_to_specialist",
                                               !.arg = explicit_mode, !.dep = dep],
                            explicit_mode)
    /\ UNCHANGED <<shared, pureVars>>

\* api.py POST /query: route_to_specialist(query=request.query,
\* explicit_mode=request.mode), with the default deployment
CallQueryTravelAgent(t) ==
    /\ t \in RouteThreads
    /\ Begin(t)
    /\ \E mode \in ExplicitArgs :
          RouteToSpecialist(t, [IdleLoc EXCEPT !.fn = "query_travel_agent",
                                               !.arg = mode],
                            mode)
    /\ UNCHANGED <<shared, pureVars>>

CallRouteMultiIntent(t) ==
    /\ t \in RouteThreads
    /\ Begin(t)
    /\ \E explicit_mode \in ExplicitArgs, dep \in DepArgs :
          LET l == [IdleLoc EXCEPT !.fn = "route_multi_intent",
                                   !.arg = explicit_mode, !.dep = dep]
          IN IF SkipDetection(explicit_mode)
             THEN RouteToSpecialist(t, l, explicit_mode) /\ UNCHANGED shared
             ELSE \E answer \in RouterMultiReplies :
                     LET classification == ClassifyMultiIntent(answer)
                         l2 == [l EXCEPT !.decomposed = @ + 1]
                     IN IF classification.exc # "none"
                        THEN /\ Done(t, l2, "raised", classification.exc, JNull,
                                     NoHandle, <<>>)
                             /\ UNCHANGED shared
                        ELSE IF Truthy(classification.is_multi_intent)
                        THEN RunMultiOrchestrator(
                                 t, [l2 EXCEPT !.path = "multi",
                                               !.intents = classification.intents],
                                 dep)
                        ELSE /\ RouteToSpecialist(
                                    t, [l2 EXCEPT !.path = "single",
                                                  !.intents = classification.intents],
                                    classification.primary_intent)
                             /\ UNCHANGED shared
    /\ UNCHANGED pureVars

\* the key is entered before the factory is called and stays without a handle
CacheWithEmptyEntry(cache, cache_key) ==
    [k \in DOMAIN cache \cup {cache_key} |->
        IF k = cache_key THEN NoHandle ELSE cache[k]]

\* _agent_cache[cache_key] = create_..._agent(...) when the factory raises:
\* the right-hand side is evaluated first, the assignment is not reached
CacheAfterRaise(cache, cache_key) == cache

\* _agent_cache[cache_key] = create_..._agent(deployment_name)
GocCreate(t) ==
    /\ pc[t] = "goc_create"
    /\ nextId <= MaxHandles
    /\ LET l == loc[t]
           cache_key == CacheKey(l.mode, l.dep)
           made == CreateAgent(FactoryOf(l.mode), l.dep, FALSE, nextId)
       IN IF made.exc # "none"
          THEN /\ Done(t, l, "raised", made.exc, JNull, NoHandle, <<>>)
               /\ agentCache' = CacheAfterRaise(agentCache, cache_key)
               /\ UNCHANGED <<multiCache, nextId, built, served>>
          ELSE /\ agentCache' = [k \in DOMAIN agentCache \cup {cache_key} |->
                                    IF k = cache_key THEN made.handle
                                    ELSE agentCache[k]]
               /\ built' = [k \in DOMAIN built \cup {cache_key} |->
                               IF k = cache_key
                               THEN (IF k \in DOMAIN built THEN built[k] ELSE <<>>)
                                    \o <<made.handle.id>>
                               ELSE built[k]]
               /\ nextId' = nextId + 1
               /\ pc' = [pc EXCEPT ![t] = "goc_return"]
               /\ loc' = [loc EXCEPT ![t].constructed = TRUE]
               /\ UNCHANGED <<multiCache, served, ret>>
    /\ UNCHANGED <<calls, cleared, pureVars>>

\* return _agent_cache[cache_key], and for a route: specialist.run(query)
GocReturn(t) ==
    /\ pc[t] = "goc_return"
    /\ LET l == loc[t]
           cache_key == CacheKey(l.mode, l.dep)
           specialist == agentCache[cache_key]
           pair == <<l.mode, l.dep>>
       IN IF cache_key \notin DOMAIN agentCache
          THEN /\ Done(t, l, "raised", "KeyError", JNull, NoHandle, <<>>)
               /\ UNCHANGED served
          ELSE /\ served' = [p \in DOMAIN served \cup {pair} |->
                                IF p = pair
                                THEN (IF p \in DOMAIN served THEN served[p] ELSE {})
                                     \cup {specialist}
                                ELSE served[p]]
               /\ IF l.fn = "get_or_create_specialist"
                  THEN Done(t, l, "returned", "none", JNull, specialist, <<>>)
                  ELSE \E ok \in BOOLEAN :
                          IF ok
                          THEN Done(t, l, "returned", "none", l.mode, specialist,
                                    <<specialist.kind>>)
                          ELSE Done(t, l, "raised", "AgentError", JNull, specialist,
                                    <<specialist.kind>>)
    /\ UNCHANGED <<agentCache, multiCache, nextId, built, calls, cleared, pureVars>>

\* clear_agent_cache: _agent_cache.clear()
CallClearAgentCache(t) ==
    /\ Begin(t)
    /\ agentCache' = EmptyFn
    /\ built' = EmptyFn
    /\ served' = EmptyFn
    /\ pc' = [pc EXCEPT ![t] = "clear_multi"]
    /\ loc' = [loc EXCEPT ![t] = [IdleLoc EXCEPT !.fn = "clear_agent_cache"]]
    /\ ret' = NoRet
    /\ UNCHANGED <<multiCache, nextId, pureVars>>

\* clear_agent_cache: _multi_orchestrator_cache = None
ClearMulti(t) ==
    /\ pc[t] = "clear_multi"
    /\ multiCache' = NoHandle
    /\ cleared' = TRUE
    /\ Done(t, loc[t], "returned", "none", JNull, NoHandle, <<>>)
    /\ UNCHANGED <<agentCache, nextId, built, served, calls, pureVars>>

Step(t) ==
    \/ CallGetOrCreateSpecialist(t)
    \/ CallRouteToSpecialist(t)
    \/ CallRouteMultiIntent(t)
    \/ CallClearAgentCache(t)
    \/ GocCreate(t)
    \/ GocReturn(t)
    \/ ClearMulti(t)

\* requests run concurrently, one thread each
Next == \E t \in Threads : Step(t)

Spec == Init /\ [][Next]_vars

\* requests run one after the other
Alone(t) == \A u \in Threads \ {t} : pc[u] = "idle"

NextSeq ==
    \E t \in Threads :
        \/ Alone(t) /\ CallGetOrCreateSpecialist(t)
        \/ Alone(t) /\ CallRouteToSpecialist(t)
        \/ Alone(t) /\ CallRouteMultiIntent(t)
        \/ Alone(t) /\ CallQueryTravelAgent(t)
        \/ Alone(t) /\ CallClearAgentCache(t)
        \/ Alone(t) /\ GocCreate(t)
        \/ Alone(t) /\ GocReturn(t)
        \/ Alone(t) /\ ClearMulti(t)

SpecSeq == Init /\ [][NextSeq]_vars

(***************************************************************************)
(* Text of the Catalog Store: a string is a sequence of tokens, each a     *)
(* word, a comma or a blank                                                *)
(***************************************************************************)
Comma == ","
Blank == " "

\* str.lower(), word by word
Lower(tok) ==
    CASE tok = "Hiking" -> "hiking"
      [] tok = "Temples" -> "temples"
      [] OTHER -> tok

StrLower(str) == [i \in DOMAIN str |-> Lower(str[i])]

RECURSIVE StrLStrip(_)
StrLStrip(str) ==
    IF str # <<>> /\ Head(str) = Blank THEN StrLStrip(Tail(str)) ELSE str

RECURSIVE StrRStrip(_)
StrRStrip(str) ==
    IF str # <<>> /\ str[Len(str)] = Blank
    THEN StrRStrip(SubSeq(str, 1, Len(str) - 1)) ELSE str

\* str.strip()
StrStrip(str) == StrRStrip(StrLStrip(str))

\* str.split(","): the pieces between the commas
RECURSIVE StrSplit(_)
StrSplit(str) ==
    IF \A i \in DOMAIN str : str[i] # Comma THEN <<str>>
    ELSE LET i == CHOOSE j \in DOMAIN str :
                      str[j] = Comma /\ \A k \in 1..(j - 1) : str[k] # Comma
         IN <<SubSeq(str, 1, i - 1)>> \o StrSplit(SubSeq(str, i + 1, Len(str)))

\* STRING_AGG(a.name, ', ')
RECURSIVE StringAgg(_)
StringAgg(names) ==
    IF Len(names) = 1 THEN names[1]
    ELSE names[1] \o <<Comma, Blank>> \o StringAgg(Tail(names))

(***************************************************************************)
(* Embeddings: VARBINARY bytes holding 32-bit floats                       *)
(***************************************************************************)
\* NULL in the embedding column
NullEmbedding == [null |-> TRUE, floats |-> <<>>, extra |-> 0]

\* the bytes of the floats, followed by extra stray bytes (fewer than four)
Bytes(floats, extra) == [null |-> FALSE, floats |-> floats, extra |-> extra]

\* bool(embedding): None and b"" are falsy
BytesTruthy(embedding) ==
    ~embedding.null /\ (embedding.floats # <<>> \/ embedding.extra # 0)

\* np.frombuffer(embedding, dtype=np.float32)
FromBuffer(embedding) ==
    IF embedding.extra # 0 THEN [exc |-> "ValueError", array |-> <<>>]
    ELSE [exc |-> "none", array |-> embedding.floats]

RECURSIVE DotSum(_, _)
DotSum(a, b) ==
    IF a = <<>> THEN 0 ELSE a[1] * b[1] + DotSum(Tail(a), Tail(b))

\* np.dot of two vectors
Dot(a, b) ==
    IF Len(a) # Len(b) THEN [exc |-> "ValueError", score |-> 0]
    ELSE [exc |-> "none", score |-> DotSum(a, b)]

\* a sort by descending score that puts the later of two equal scores first
RECURSIVE SortByScoreUnstable(_)
SortByScoreUnstable(scored) ==
    IF scored = <<>> THEN <<>>
    ELSE LET n == Len(scored)
             rest == SortByScoreUnstable(SubSeq(scored, 1, n - 1))
             x == scored[n]
             k == Cardinality({i \in DOMAIN rest : rest[i].score > x.score})
         IN SubSeq(rest, 1, k) \o <<x>> \o SubSeq(rest, k + 1, Len(rest))

\* sorted(..., key=score, reverse=True): stable, equal scores keep their order
RECURSIVE SortByScore(_)
SortByScore(scored) ==
    IF scored = <<>> THEN <<>>
    ELSE LET n == Len(scored)
             rest == SortByScore(SubSeq(scored, 1, n - 1))
             x == scored[n]
             ahead == {i \in DOMAIN rest : rest[i].score >= x.score}
             k == Cardinality(ahead)
         IN SubSeq(rest, 1, k) \o <<x>> \o SubSeq(rest, k + 1, Len(rest))

Min(a, b) == IF a < b THEN a ELSE b

\* seq[:n], for n >= 0
Slice(seq, n) == SubSeq(seq, 1, Min(n, Len(seq)))

(***************************************************************************)
(* database/queries.py                                                     *)
(***************************************************************************)
\* the case folding of the database collation
Fold(str) ==
    CASE str = "North" -> "north"
      [] str = "South" -> "south"
      [] OTHER -> str

\* column LIKE '%arg%' (a NULL column matches nothing)
Like(column, arg) ==
    column.t = "str" /\ (arg.s = "" \/ Fold(column.s) = Fold(arg.s))

\* FROM places p JOIN place_activities pa ... JOIN activities a ...
\* GROUP BY p.name, p.embedding: one row for each place that has activities
JoinActivities(places) ==
    LET linked == SelectSeq(places, LAMBDA p : p.activities # <<>>)
    IN [i \in DOMAIN linked |->
           [id |-> linked[i].id,
            activities |-> StringAgg(linked[i].activities),
            embedding |-> linked[i].embedding]]

\* an Embedding Service that answers with the embedding of the text of the
\* call before
TextToEmbeddingStale(text) ==
    IF out # Pending /\ out.last # Pending THEN out.last.query ELSE text

\* text_to_embedding: a text of a call is given by the vector the model
\* encodes it to, the same at every call
TextToEmbedding(text) == text

\* semantic_rank(rows, query, top_k); q_emb is text_to_embedding(query)
SemanticRank(rows, q_emb, top_k) ==
    LET usable(row) ==
            /\ BytesTruthy(row.embedding)
            /\ FromBuffer(row.embedding).exc = "none"
            /\ Dot(q_emb, FromBuffer(row.embedding).array).exc = "none"
        kept == SelectSeq(rows, usable)
        scored == [i \in DOMAIN kept |->
                      [score |-> Dot(q_emb, FromBuffer(kept[i].embedding).array).score,
                       row |-> kept[i]]]
        top == Slice(SortByScore(scored), top_k)
    IN [i \in DOMAIN top |-> top[i].row]

\* get_place_activities calls semantic_search_all(query, top_k=5)
SemanticTopK == 5

SemanticSearchAll(places, q_emb, top_k) ==
    SemanticRank(JoinActivities(places), q_emb, top_k)

\* if not any([place_name, region, country, category])
NoFilters(c) ==
    ~(Truthy(c.place_name) \/ Truthy(c.region) \/ Truthy(c.country)
      \/ Truthy(c.category))

\* the WHERE clause built from the filters that are given
Where(p, c) ==
    /\ Truthy(c.place_name) => Like(p.name, c.place_name)
    /\ Truthy(c.region) => Like(p.region, c.region)
    /\ Truthy(c.country) => Like(p.country, c.country)
    /\ Truthy(c.category) => Like(p.category, c.category)

\* get_place_activities: the rows, and the calls made to the Embedding Service
GetPlaceActivities(places, c) ==
    IF NoFilters(c)
    THEN [rows |-> SemanticSearchAll(places, TextToEmbedding(c.query),
                                     SemanticTopK),
          embed_calls |-> 1]
    ELSE [rows |-> JoinActivities(SelectSeq(places, LAMBDA p : Where(p, c))),
          embed_calls |-> 0]

(***************************************************************************)
(* utils/rag.py                                                            *)
(***************************************************************************)
\* [a.strip() for a in place_activities_str.split(",")], lower-cased
ParseActivities(place_activities_str) ==
    LET parts == StrSplit(place_activities_str)
    IN [i \in DOMAIN parts |-> StrLower(StrStrip(parts[i]))]

\* any(...) in place of all(...): one requested activity is enough
ActivityMatchAny(requested_activities, place_activities) ==
    \E i \in DOMAIN requested_activities :
        \E j \in DOMAIN place_activities :
            StrLower(requested_activities[i]) = place_activities[j]

\* all(any(req.lower() == act for act in place_activities) for req in ...)
ActivityMatch(requested_activities, place_activities) ==
    \A i \in DOMAIN requested_activities :
        \E j \in DOMAIN place_activities :
            StrLower(requested_activities[i]) = place_activities[j]

\* the rows that pass the activity gate and the embedding checks
Candidates(places_data, requested_activities) ==
    LET keeps(row) ==
            /\ (requested_activities # <<>> =>
                   ActivityMatch(requested_activities,
                                 ParseActivities(row.activities)))
            /\ ~row.embedding.null
            /\ FromBuffer(row.embedding).exc = "none"
        kept == SelectSeq(places_data, keeps)
    IN [i \in DOMAIN kept |->
           [id |-> kept[i].id,
            activities |-> ParseActivities(kept[i].activities),
            embedding |-> FromBuffer(kept[i].embedding).array]]

RetrievePlaces(places, c) ==
    LET places_data == GetPlaceActivities(places, c)
        candidates == Candidates(places_data.rows, c.requested_activities)
        pool == [i \in DOMAIN candidates |-> candidates[i].id]
        q_emb == TextToEmbedding(c.query)
        scored == [i \in DOMAIN candidates |->
                      [score |-> DotSum(candidates[i].embedding, q_emb),
                       id |-> candidates[i].id,
                       activities |-> candidates[i].activities]]
    IN IF candidates = <<>>
       THEN [exc |-> "none", result |-> <<>>, pool |-> pool,
             embed_calls |-> places_data.embed_calls]
       ELSE IF \E i \in DOMAIN candidates :
                  Len(candidates[i].embedding) # Len(q_emb)
       THEN [exc |-> "ValueError", result |-> <<>>, pool |-> pool,
             embed_calls |-> places_data.embed_calls + 1]
       ELSE [exc |-> "none", result |-> Slice(SortByScore(scored), c.top_k),
             pool |-> pool, embed_calls |-> places_data.embed_calls + 1]

(***************************************************************************)
(* retrieve_places applied to one catalog                                  *)
(***************************************************************************)
Hike == <<"hiking">>
HikeCap == <<"Hiking">>
Temples == <<"temples">>
\* one activity whose name holds a comma: "spa,hiking"
SpaHike == <<"spa", Comma, "hiking">>

Place(region, activities, embedding) ==
    [id |-> 0, name |-> JStr("Doi Suthep"), region |-> JStr(region),
     country |-> JNull, category |-> JNull, activities |-> activities,
     embedding |-> embedding, latitude |-> NoneCoord, longitude |-> NoneCoord]

PlaceKinds ==
    {Place("North", <<Hike>>, Bytes(<<1, 0>>, 0)),
     Place("North", <<HikeCap, Temples>>, Bytes(<<0, 1>>, 0)),
     Place("South", <<Temples>>, Bytes(<<1, 0>>, 0)),
     Place("South", <<SpaHike>>, Bytes(<<2, 1>>, 0)),
     Place("North", <<>>, Bytes(<<1, 0>>, 0)),
     Place("North", <<Hike>>, NullEmbedding),
     Place("North", <<Hike>>, Bytes(<<>>, 0)),
     Place("North", <<Hike>>, Bytes(<<1>>, 3)),
     Place("North", <<Hike>>, Bytes(<<1, 0, 0>>, 0))}

WellFormedPlace == Place("North", <<Hike>>, Bytes(<<1, 1>>, 0))

\* the rows numbered in the order the Catalog Store returns them
Numbered(rows) == [i \in DOMAIN rows |-> [rows[i] EXCEPT !.id = i]]

PlaceTables ==
    {Numbered(varied \o [i \in 1..n |-> WellFormedPlace]) :
        varied \in SeqsUpTo(PlaceKinds, MaxVaried), n \in 0..MaxFill}

RetrieveCalls ==
    [fn : {"retrieve_places"},
     query : {<<1, 0>>, <<1, 1>>},
     place_name : {JNull},
     region : {JNull, JStr("north")},
     country : {JNull},
     category : {JNull},
     requested_activities : {<<>>, <<Hike>>, <<HikeCap, Temples>>},
     top_k : {0, 2, 6}]

InitRetrieve ==
    /\ op = "retrieve_places"
    /\ resp = NoneContent
    /\ out = Pending
    /\ \E places \in PlaceTables :
          catalog = [places |-> places, accommodations |-> <<>>]
    /\ call \in RetrieveCalls
    /\ InitRoute

RetrievePlacesCall ==
    /\ op = "retrieve_places"
    /\ out = Pending
    /\ out' = RetrievePlaces(catalog.places, call)
    /\ UNCHANGED <<op, resp, callVars, routeVars>>

NextRetrieve == RetrievePlacesCall

SpecRetrieve == InitRetrieve /\ [][NextRetrieve]_vars

(***************************************************************************)
(* retrieve_places called again after other calls                          *)
(***************************************************************************)
\* the catalogs of at most MaxVaried varied rows, alone or over MaxFill others
RepeatTables ==
    {Numbered(varied \o [i \in 1..n |-> WellFormedPlace]) :
        varied \in SeqsUpTo(PlaceKinds, MaxVaried), n \in {0, MaxFill}}

\* the calls made in between: c with the other query, and an unfiltered call
\* for one activity with the query of c
OtherCalls(c) ==
    {[c EXCEPT !.query = IF c.query = <<1, 0>> THEN <<1, 1>> ELSE <<1, 0>>],
     [c EXCEPT !.region = JNull, !.requested_activities = <<Hike>>,
               !.top_k = 6]}

InitRepeat ==
    /\ op = "retrieve_places"
    /\ resp = NoneContent
    /\ out = Pending
    /\ \E places \in RepeatTables :
          catalog = [places |-> places, accommodations |-> <<>>]
    /\ call \in RetrieveCalls
    /\ InitRoute

\* the call
RetrieveFirst ==
    /\ op = "retrieve_places"
    /\ out = Pending
    /\ out' = [exc |-> "none", first |-> RetrievePlaces(catalog.places, call),
               between |-> 0, last |-> Pending, again |-> Pending]
    /\ UNCHANGED <<op, resp, callVars, routeVars>>

\* a call with other arguments
RetrieveOther ==
    /\ op = "retrieve_places"
    /\ out # Pending
    /\ out.again = Pending
    /\ out.between < MaxBetween
    /\ \E other \in OtherCalls(call) :
          out' = [out EXCEPT !.between = @ + 1,
                             !.last = [query |-> other.query,
                                       ret |-> RetrievePlaces(catalog.places,
                                                              other)]]
    /\ UNCHANGED <<op, resp, callVars, routeVars>>

\* the call with the arguments of the first
RetrieveAgain ==
    /\ op = "retrieve_places"
    /\ out # Pending
    /\ out.again = Pending
    /\ out' = [out EXCEPT !.again = RetrievePlaces(catalog.places, call)]
    /\ UNCHANGED <<op, resp, callVars, routeVars>>

NextRepeat ==
    \/ RetrieveFirst
    \/ RetrieveOther
    \/ RetrieveAgain

SpecRepeat == InitRepeat /\ [][NextRepeat]_vars

(***************************************************************************)
(* utils/geo.py: distances in hundredths of a kilometre, on the points     *)
(* whose sines and cosines are rational                                    *)
(***************************************************************************)
Abs(n) == IF n < 0 THEN 0 - n ELSE n

\* 4 * math.sin(math.radians(deg)) ** 2, for deg a multiple of 30
Sin2x4(deg) ==
    LET x == Abs(deg) % 180
    IN CASE x = 0 -> 0
         [] x \in {30, 150} -> 1
         [] x \in {60, 120} -> 3
         [] x = 90 -> 4

\* 2 * math.cos(math.radians(lat)), for lat in {-60, 0, 60}
Cos2(lat) == IF Abs(lat) = 60 THEN 1 ELSE 2

\* round(6371.0 * 2 * math.asin(math.sqrt(a)), 2) for a = 0/16 .. 16/16
ArcKm ==
    <<0, 321965, 460454, 570628, 667170, 755855, 839772, 920908, 1000754,
      1080601, 1161737, 1245654, 1334339, 1430881, 1541055, 1679543, 2001509>>

\* the formula with cos(lat1) used for both points
HaversineSkewed(lat1, lon1, lat2, lon2) ==
    LET dlat == lat2 - lat1
        dlon == lon2 - lon1
        a16 == 4 * Sin2x4(dlat \div 2)
               + Cos2(lat1) * Cos2(lat1) * Sin2x4(dlon \div 2)
    IN ArcKm[Min(a16, 16) + 1]

\* haversine_distance
HaversineDistance(lat1, lon1, lat2, lon2) ==
    LET dlat == lat2 - lat1
        dlon == lon2 - lon1
        a16 == 4 * Sin2x4(dlat \div 2)
               + Cos2(lat1) * Cos2(lat2) * Sin2x4(dlon \div 2)
    IN ArcKm[a16 + 1]

\* if lat_key not in item or lon_key not in item / is None
HasCoordinates(item) ==
    /\ "latitude" \in DOMAIN item
    /\ "longitude" \in DOMAIN item
    /\ item.latitude.t # "null"
    /\ item.longitude.t # "null"

\* distance < radius_km
WithinRadiusStrict(distance, radius_km) == distance < radius_km

\* if distance <= radius_km
WithinRadius(distance, radius_km) == distance <= radius_km

\* nearby_items.sort(key=lambda x: x[1]): stable, ascending
RECURSIVE SortByDistance(_)
SortByDistance(pairs) ==
    IF pairs = <<>> THEN <<>>
    ELSE LET n == Len(pairs)
             rest == SortByDistance(SubSeq(pairs, 1, n - 1))
             x == pairs[n]
             k == Cardinality({i \in DOMAIN rest : rest[i].distance <= x.distance})
         IN SubSeq(rest, 1, k) \o <<x>> \o SubSeq(rest, k + 1, Len(rest))

FindNearby(target_lat, target_lon, items, radius_km) ==
    LET distance(item) ==
            HaversineDistance(target_lat, target_lon,
                              item.latitude.deg, item.longitude.deg)
        near(item) ==
            HasCoordinates(item) /\ WithinRadius(distance(item), radius_km)
        kept == SelectSeq(items, near)
    IN SortByDistance([i \in DOMAIN kept |->
                          [item |-> kept[i], distance |-> distance(kept[i])]])

(***************************************************************************)
(* agents/tools/accommodation_tools.py: find_accommodation_near_place      *)
(***************************************************************************)
\* get_coordinates found nothing
NoCoords == [t |-> "null", latitude |-> NoneCoord, longitude |-> NoneCoord]
\* the tuple (lat, lon)
Coords(latitude, longitude) ==
    [t |-> "tuple", latitude |-> latitude, longitude |-> longitude]

\* if accommodation_type: / if price_range:
Given(arg) == arg.t = "str" /\ arg.s # ""

\* FROM accommodations a WHERE a.latitude IS NOT NULL AND a.longitude IS NOT
\* NULL [AND a.type LIKE ?] [AND a.price_range = ?]
AllAccommodations(accommodations, c) ==
    LET selected(a) ==
            /\ a.latitude.t # "null"
            /\ a.longitude.t # "null"
            /\ Given(c.accommodation_type) => Like(a.type, c.accommodation_type)
            /\ Given(c.price_range) => a.price_range = c.price_range
    IN SelectSeq(accommodations, selected)

\* from target_lat, target_lon = coords to the return
NearTarget(coords, accommodations, c) ==
    LET nearby == FindNearby(coords.latitude.deg, coords.longitude.deg,
                             AllAccommodations(accommodations, c), c.radius_km)
    IN IF nearby = <<>>
       THEN [exc |-> "none", outcome |-> "none_within_radius",
             coords |-> coords, listed |-> <<>>]
       ELSE [exc |-> "none", outcome |-> "listing",
             coords |-> coords, listed |-> Slice(nearby, c.limit)]

\* the rows SELECT TOP 1 latitude, longitude FROM places WHERE name LIKE ?
\* may give: no ORDER BY, so any matching row
TopOnePlace(places, place_name) ==
    {i \in DOMAIN places : Like(places[i].name, JStr(place_name))}

\* the outcomes of one call; geocoded is what get_coordinates returns
FindAccommodationNearPlace(places, accommodations, geocoded, c) ==
    IF geocoded.t # "null"
    THEN {NearTarget(geocoded, accommodations, c)}
    ELSE IF TopOnePlace(places, c.place_name) = {}
    THEN {[exc |-> "none", outcome |-> "location_not_found",
           coords |-> NoCoords, listed |-> <<>>]}
    ELSE {IF places[i].latitude.t = "null" \/ places[i].longitude.t = "null"
          THEN [exc |-> "TypeError", outcome |-> "raised",
                coords |-> NoCoords, listed |-> <<>>]
          ELSE NearTarget(Coords(places[i].latitude, places[i].longitude),
                          accommodations, c)
          : i \in TopOnePlace(places, c.place_name)}

(***************************************************************************)
(* The geographic functions applied to one call                            *)
(***************************************************************************)
Latitudes == {-60, 0, 60}
Longitudes == {-120, 0, 60, 180}

\* radius_km in hundredths: none, the default 10 km, the distance of 60
\* degrees of the equator exactly, half the globe
Radii == {0, 1000, ArcKm[5], ArcKm[17]}

HaversineCalls ==
    [fn : {"haversine_distance"}, lat1 : Latitudes, lon1 : Longitudes,
     lat2 : Latitudes, lon2 : Longitudes]

Item(name, latitude, longitude) ==
    [name |-> name, latitude |-> latitude, longitude |-> longitude]

ItemKinds ==
    {[name |-> "Wat Chedi"],
     [name |-> "Wat Chedi", latitude |-> Coord(0)],
     Item("Doi Kham", NoneCoord, Coord(0)),
     Item("Doi Kham", Coord(0), NoneCoord),
     Item("Old City", Coord(0), Coord(0)),
     Item("Doi Suthep", Coord(0), Coord(60)),
     Item("Doi Pui", Coord(0), Coord(-120)),
     Item("Doi Inthanon", Coord(60), Coord(0)),
     Item("Mae Rim", Coord(-60), Coord(180))}

FindNearbyCalls ==
    [fn : {"find_nearby"}, target_lat : {0, 60}, target_lon : {0},
     items : SeqsUpTo(ItemKinds, MaxItems), radius_km : Radii]

GeoPlace(name, latitude, longitude) ==
    [Place("North", <<Hike>>, NullEmbedding)
        EXCEPT !.name = JStr(name), !.latitude = latitude,
               !.longitude = longitude]

GeoPlaceKinds ==
    {GeoPlace("Doi Suthep", Coord(0), Coord(60)),
     GeoPlace("Doi Suthep", NoneCoord, NoneCoord),
     GeoPlace("Doi Suthep", Coord(0), NoneCoord),
     GeoPlace("Old City", Coord(0), Coord(0))}

Accommodation(type, price_range, latitude, longitude) ==
    [type |-> JStr(type), price_range |-> JStr(price_range),
     latitude |-> latitude, longitude |-> longitude]

AccommodationKinds ==
    {Accommodation("hotel", "budget", Coord(0), Coord(0)),
     Accommodation("hostel", "budget", Coord(0), Coord(60)),
     Accommodation("hotel", "luxury", Coord(60), Coord(0)),
     Accommodation("hotel", "budget", NoneCoord, Coord(0))}

FindAccommodationCalls ==
    [fn : {"find_accommodation_near_place"},
     place_name : {"Doi Suthep", "Mae Rim"},
     geocoded : {NoCoords, Coords(Coord(0), Coord(0))},
     radius_km : {1000, ArcKm[17]},
     accommodation_type : {JNull, JStr("hotel")},
     price_range : {JNull, JStr("budget")},
     limit : {1, 10}]

InitGeo ==
    /\ resp = NoneContent
    /\ out = Pending
    /\ \/ /\ op = "haversine_distance"
          /\ catalog = EmptyCatalog
          /\ call \in HaversineCalls
       \/ /\ op = "find_nearby"
          /\ catalog = EmptyCatalog
          /\ call \in FindNearbyCalls
       \/ /\ op = "find_accommodation_near_place"
          /\ \E places \in SeqsUpTo(GeoPlaceKinds, MaxVaried) :
             \E accommodations \in SeqsUpTo(AccommodationKinds, MaxVaried) :
                catalog = [places |-> Numbered(places),
                           accommodations |-> accommodations]
          /\ call \in FindAccommodationCalls
    /\ InitRoute

\* one distance, the distance of the swapped pair and of a point to itself
HaversineDistanceCall ==
    /\ op = "haversine_distance"
    /\ out = Pending
    /\ out' = [exc |-> "none",
               distance |-> HaversineDistance(call.lat1, call.lon1,
                                              call.lat2, call.lon2),
               swapped |-> HaversineDistance(call.lat2, call.lon2,
                                             call.lat1, call.lon1),
               self |-> HaversineDistance(call.lat1, call.lon1,
                                          call.lat1, call.lon1)]
    /\ UNCHANGED <<op, resp, callVars, routeVars>>

FindNearbyCall ==
    /\ op = "find_nearby"
    /\ out = Pending
    /\ out' = [exc |-> "none",
               result |-> FindNearby(call.target_lat, call.target_lon,
                                     call.items, call.radius_km)]
    /\ UNCHANGED <<op, resp, callVars, routeVars>>

FindAccommodationNearPlaceCall ==
    /\ op = "find_accommodation_near_place"
    /\ out = Pending
    /\ out' \in FindAccommodationNearPlace(catalog.places,
                                           catalog.accommodations,
                                           call.geocoded, call)
    /\ UNCHANGED <<op, resp, callVars, routeVars>>

NextGeo ==
    \/ HaversineDistanceCall
    \/ FindNearbyCall
    \/ FindAccommodationNearPlaceCall

SpecGeo == InitGeo /\ [][NextGeo]_vars

(***************************************************************************)
(* Claims about the classifiers (checked under SpecIntent)                 *)
(***************************************************************************)
\* the texts that carry the JSON value v the way the Completion Service
\* contract allows: bare, or inside a code fence (optionally tagged json),
\* with whitespace around it
Padded(s) == {s, <<WS>> \o s, s \o <<WS>>, <<WS>> \o s \o <<WS>>}

CarriesJson(v) ==
    {Text(s) : s \in UNION {Padded(c) :
        c \in {<<JsonText(v)>>,
               <<Fence, JsonText(v)>>,
               <<Fence, JsonText(v), Fence>>,
               <<Fence, JsonWord, JsonText(v)>>,
               <<Fence, JsonWord, JsonText(v), Fence>>}}}

\* the texts that are no JSON object: no text, empty text, text that is not
\* JSON, and JSON that is a list, a number, null, a string or a boolean
NotAnObject ==
    {NoneContent, Text(<<>>), Text(<<WS>>), Text(<<Junk>>), Text(<<Fence, Junk>>)}
    \cup {Text(<<JsonText(v)>>) : v \in NonObjects}

ModeCallDone == op = "classify_generation_mode" /\ out # Pending
MultiCallDone == op = "classify_multi_intent" /\ out # Pending

\* C1: for every Completion Service response classify_generation_mode
\* returns without raising, and its generation_mode is one of the six
\* GenerationMode values.
C1_ClassifyModeNeverRaises ==
    ModeCallDone =>
        /\ out.exc = "none"
        /\ out.generation_mode.t = "str"
        /\ out.generation_mode.s \in GenerationMode

C10_UnparseableGivesDefaultIntent ==
    (MultiCallDone /\ resp \in NotAnObject) =>
        /\ out.exc = "none"
        /\ out.is_multi_intent = JFalse
        /\ out.primary_intent = JStr("itinerary")
        /\ out.intents.t = "list"
        /\ out.intents.items # <<>>

\* C11: classify_multi_intent never returns is_multi_intent true together
\* with an empty or missing intents list; such a Completion output yields the
\* single-intent default.
C11_MultiIntentHasIntents ==
    (MultiCallDone /\ out.exc = "none" /\ Truthy(out.is_multi_intent)) =>
        /\ out.intents.t = "list"
        /\ out.intents.items # <<>>

IntentCallDone == op = "extract_intent" /\ out # Pending

\* C12: for every Completion Service response extract_intent returns without
\* raising an Intent with the six slots, and when the response is not a JSON
\* object every slot is unset (activities empty).
C12_ExtractIntentNeverRaises ==
    IntentCallDone =>
        /\ out.exc = "none"
        /\ DOMAIN out = {"exc", "place_name", "region", "country", "category",
                         "activities", "days"}
        /\ resp \in NotAnObject =>
              /\ \A slot \in {"place_name", "region", "country", "category", "days"} :
                    out[slot] = JNull
              /\ out.activities = JList(<<>>)

\* C22: list_available_modes returns exactly 5 entries, one for each
\* generation mode, each with the name, the value and the description of the
\* mode.
C22_FiveModesListed ==
    (op = "list_available_modes" /\ out # Pending) =>
        /\ out.exc = "none"
        /\ Len(out.modes) = 5
        /\ \A m \in GenerationMode :
              Cardinality({i \in DOMAIN out.modes : out.modes[i].value = m}) = 1
        /\ \A i \in DOMAIN out.modes :
              /\ out.modes[i].value \in GenerationMode
              /\ out.modes[i].mode # ""
              /\ out.modes[i].description = ModeDescription(out.modes[i].value)

(***************************************************************************)
(* Claims about retrieve_places (checked under SpecRetrieve)               *)
(***************************************************************************)
RetrieveDone == op = "retrieve_places" /\ out # Pending

\* the stored bytes are a whole number of floats, as many as the query
\* embedding has
Decodable(embedding, q_emb) ==
    /\ ~embedding.null
    /\ embedding.extra = 0
    /\ Len(embedding.floats) = Len(q_emb)

NoFilterGiven ==
    /\ call.place_name = JNull
    /\ call.region = JNull
    /\ call.country = JNull
    /\ call.category = JNull

\* C13: without filters and without requested activities retrieve_places
\* ranks the full catalog: with N records that have a decodable embedding it
\* returns min(top_k, N) results, for every top_k.
C13_NoFilterRanksFullCatalog ==
    (RetrieveDone /\ NoFilterGiven /\ call.requested_activities = <<>>) =>
        LET valid == {i \in DOMAIN catalog.places :
                         Decodable(catalog.places[i].embedding, call.query)}
        IN /\ out.exc = "none"
           /\ Len(out.result) = Min(call.top_k, Cardinality(valid))

C15_BadEmbeddingsAreSkipped ==
    RetrieveDone =>
        /\ out.exc = "none"
        /\ \A r \in DOMAIN out.result :
              Decodable(catalog.places[out.result[r].id].embedding, call.query)

\* C16: the returned sequence is in non-increasing order of score, records
\* of equal score are in the order the catalog returned them, and its length
\* is min(top_k, number of candidates that reached the ranking).
C16_SortedStableTruncated ==
    (RetrieveDone /\ out.exc = "none") =>
        /\ \A i, j \in DOMAIN out.result :
              i < j =>
                  /\ out.result[i].score >= out.result[j].score
                  /\ out.result[i].score = out.result[j].score
                     => out.result[i].id < out.result[j].id
        /\ Len(out.result) = Min(call.top_k, Len(out.pool))

\* witness of C16: the best record came later in the catalog than the next
\* two, which tie; and a call that returned fewer records than were ranked
C16_Witness ==
    /\ RetrieveDone
    /\ out.exc = "none"
    /\ Len(out.result) >= 3
    /\ out.result[1].score > out.result[2].score
    /\ out.result[2].score = out.result[3].score
    /\ out.result[1].id > out.result[2].id

\* the catalog record holds every requested activity, ignoring case
HoldsRequested(place) ==
    \A i \in DOMAIN call.requested_activities :
        \E j \in DOMAIN place.activities :
            StrLower(place.activities[j]) = StrLower(call.requested_activities[i])

\* the records that match the attribute filters, hold every requested
\* activity and have a decodable embedding, with their scores, best first
GatedRanking ==
    LET passes(p) ==
            /\ Where(p, call)
            /\ HoldsRequested(p)
            /\ Decodable(p.embedding, call.query)
        kept == SelectSeq(catalog.places, passes)
    IN SortByScore([i \in DOMAIN kept |->
                       [score |-> DotSum(kept[i].embedding.floats, call.query),
                        id |-> kept[i].id]])

\* C23: the activity gate is applied to the whole filtered candidate set
\* before any ranking or truncation: when activities are requested,
\* retrieve_places returns exactly the first top_k, by descending score, of
\* all catalog records that match the attribute filters, hold every
\* requested activity and have a decodable embedding, with or without an
\* attribute filter.
C23_GateBeforeRankingAndTruncation ==
    (RetrieveDone /\ out.exc = "none" /\ call.requested_activities # <<>>) =>
        LET expected == Slice(GatedRanking, call.top_k)
        IN /\ Len(out.result) = Len(expected)
           /\ \A i \in DOMAIN expected :
                 /\ out.result[i].score = expected[i].score
                 /\ out.result[i].id = expected[i].id

\* C24: within one retrieve_places call the Embedding Service is invoked at
\* most once for the query, with or without attribute filters, and not at
\* all when no candidate survives filtering; the call then returns an empty
\* sequence without raising.
C24_QueryEmbeddedAtMostOnce ==
    RetrieveDone =>
        /\ out.embed_calls <= 1
        /\ out.pool = <<>> =>
              /\ out.embed_calls = 0
              /\ out.exc = "none"
              /\ out.result = <<>>

NearbyDone == op = "find_nearby" /\ out # Pending

\* the distance of an item of the call from the target of the call
DistanceFromTarget(item) ==
    HaversineDistance(call.target_lat, call.target_lon,
                      item.latitude.deg, item.longitude.deg)

\* the item has both coordinates, neither is None, and it lies in the radius
Qualifies(item) ==
    /\ {"latitude", "longitude"} \subseteq DOMAIN item
    /\ item.latitude # NoneCoord
    /\ item.longitude # NoneCoord
    /\ DistanceFromTarget(item) <= call.radius_km

Occurrences(seq, x) == Cardinality({i \in DOMAIN seq : seq[i] = x})

AccommodationDone == op = "find_accommodation_near_place" /\ out # Pending

\* geocoding found nothing and no place of the catalog that matches the name
\* has both coordinates
TargetUnresolved ==
    /\ call.geocoded = NoCoords
    /\ \A i \in DOMAIN catalog.places :
          Like(catalog.places[i].name, JStr(call.place_name)) =>
             \/ catalog.places[i].latitude = NoneCoord
             \/ catalog.places[i].longitude = NoneCoord

\* C18: find_accommodation_near_place returns the "could not find location"
\* outcome whenever the target yields no coordinates (geocoding finds nothing
\* and the catalog has no matching place, or a matching place without
\* coordinates), without an exception, and returns "no accommodations within
\* the radius" only when the target was resolved.
C18_UnresolvedTargetIsLocationNotFound ==
    AccommodationDone =>
        /\ TargetUnresolved =>
              out.exc = "none" /\ out.outcome = "location_not_found"
        /\ out.outcome = "none_within_radius" => ~TargetUnresolved

HaversineDone == op = "haversine_distance" /\ out # Pending

\* C20: haversine_distance gives the same distance for a pair of points and
\* for the swapped pair, and the distance from a point to itself is 0.
C20_HaversineSymmetricZeroToSelf ==
    HaversineDone => out.distance = out.swapped /\ out.self = 0

\* two points of different latitude and longitude, one on the equator
C20_Witness ==
    /\ HaversineDone
    /\ call.lat1 = 0
    /\ call.lat2 = 60
    /\ call.lon1 # call.lon2
    /\ out.distance > 0
    /\ out.distance = out.swapped
    /\ out.self = 0

(***************************************************************************)
(* Claims about the specialist cache and the router                        *)
(***************************************************************************)
RouteFns == {"route_to_specialist", "route_multi_intent"}
Ended == ret.status # "none"
IsGenerationMode(v) == v.t = "str" /\ v.s \in GenerationMode

\* a mode string was passed as explicit_mode (None and "" are no mode)
Supplied(v) == v.t = "str" /\ v.s # ""

\* C3: with requests served one after the other, between two clears every
\* cache key has exactly one handle constructed for it, the one the cache
\* holds (entries are never replaced or evicted), and all calls with the
\* same (mode, deployment_name) got the identical handle.
C3_OneHandlePerKey ==
    /\ DOMAIN built = DOMAIN agentCache
    /\ \A k \in DOMAIN agentCache : built[k] = <<agentCache[k].id>>
    /\ \A p \in DOMAIN served :
          /\ Cardinality(served[p]) = 1
          /\ served[p] = {agentCache[CacheKey(p[1], p[2])]}

\* witness of C3: a get_or_create_specialist call was answered from the
\* cache with the handle an earlier call constructed
C3_Witness ==
    /\ Ended
    /\ ret.fn = "get_or_create_specialist"
    /\ ret.status = "returned"
    /\ ~ret.constructed
    /\ built[CacheKey(ret.mode, ret.dep)] = <<ret.handle.id>>

\* C4: also with concurrent requests, at most one handle is constructed
\* for a cache key and all callers of a (mode, deployment_name) receive
\* the same handle.
C4_ConcurrentMissesConstructOnce ==
    /\ \A k \in DOMAIN built : Len(built[k]) <= 1
    /\ \A p \in DOMAIN served : Cardinality(served[p]) <= 1

\* C5: get_or_create_specialist with a mode outside the six GenerationMode
\* values raises, returns no handle and inserts no cache entry.
C5_UnknownModeRaises ==
    (Ended /\ ret.fn = "get_or_create_specialist" /\ ~IsGenerationMode(ret.arg)) =>
        /\ ret.status = "raised"
        /\ ret.handle = NoHandle
        /\ ~ret.constructed

\* C6: a routed request that was given an explicit mode never invokes the
\* Mode Classifier nor the Decomposer; it resolves the specialist of that
\* mode, runs it, and returns that mode as mode_used.
C6_ExplicitModeBypassesClassification ==
    /\ \A t \in Threads :
          (loc[t].fn \in RouteFns /\ Supplied(loc[t].arg)) =>
              /\ loc[t].classified = 0
              /\ loc[t].decomposed = 0
              /\ loc[t].mode = loc[t].arg
    /\ (Ended /\ ret.fn \in RouteFns /\ Supplied(ret.arg)) =>
          /\ ret.classified = 0
          /\ ret.decomposed = 0
          /\ ret.mode = ret.arg
          /\ ret.status = "returned" =>
                /\ ret.mode_used = ret.arg
                /\ ret.ran = <<ret.handle.kind>>

\* witness of C6: route_multi_intent with explicit mode describe_place
\* returned, having run the places specialist
C6_Witness ==
    /\ Ended
    /\ ret.fn = "route_multi_intent"
    /\ ret.arg = JStr("describe_place")
    /\ ret.status = "returned"
    /\ ret.mode_used = JStr("describe_place")
    /\ ret.ran = <<"places">>

\* C7: a request the Decomposer reports as multi-intent, with sub-intents
\* s1..sn, returns mode_used "multi-agent" after running the specialist of
\* each sub-intent's mode, one per sub-intent, in list order (unless a
\* specialist fails or the deployment is unknown).
C7_MultiIntentRunsSubIntentsInOrder ==
    (/\ Ended
     /\ ret.fn = "route_multi_intent"
     /\ ret.path = "multi"
     /\ ret.intents.t = "list"
     /\ ret.intents.items # <<>>
     /\ ret.exc \notin {"AgentError", "ValueError"}) =>
        /\ ret.status = "returned"
        /\ ret.mode_used = JStr("multi-agent")
        /\ ret.ran = [i \in DOMAIN ret.intents.items |->
                         StandaloneFactory(ret.intents.items[i])]

\* C19: when a specialist fails while a sub-intent of a multi-intent request
\* runs, the router returns a "request failed" outcome of its own that names
\* the failed sub-intent and keeps the outputs of the sub-intents that had
\* completed: a multi-intent request never ends in a raised exception.
C19_MultiIntentFailureIsAnOutcome ==
    (/\ Ended
     /\ ret.fn = "route_multi_intent"
     /\ ret.path = "multi"
     /\ ret.intents.t = "list"
     /\ ret.intents.items # <<>>
     /\ ret.status # "returned") =>
        /\ ret.status = "failed"
        /\ ret.handle # NoHandle

HandlerEnded == Ended /\ ret.fn = "query_travel_agent"

\* C25: the POST /query handler never propagates an exception: when the
\* classification, the construction of the specialist or its run fails it
\* returns a TravelResponse with success false, mode "error", an empty
\* response and the text of the error; otherwise it returns success true with
\* the specialist's answer and the mode route_to_specialist returned.
C25_QueryHandlerNeverRaises ==
    HandlerEnded =>
        /\ ret.status = "returned"
        /\ ret.exc = "none"
        /\ ret.reply.made
        /\ ret.reply.success <=> ret.mode_used # JNull
        /\ ret.reply.success =>
              /\ ret.reply.mode = ret.mode_used.s
              /\ ret.reply.mode = ret.mode.s
              /\ ret.reply.response = Answer
              /\ ret.reply.error = "None"
              /\ ret.handle # NoHandle
        /\ ~ret.reply.success =>
              /\ ret.reply.mode = "error"
              /\ ret.reply.response = ""
              /\ ret.reply.error \in {"AttributeError", "TypeError",
                                      "ValueError", "KeyError", "AgentError"}

\* a request whose classification failed, after a request that was served
C25_Witness ==
    /\ HandlerEnded
    /\ ret.classified = 1
    /\ ret.handle = NoHandle
    /\ ~ret.reply.success
    /\ ret.reply.error = "AttributeError"
    /\ agentCache # EmptyFn

\* C26: two different (mode, deployment_name) pairs never share a cache
\* entry: no handle is returned for two different pairs (an unset
\* deployment_name and the deployment named "default" included), and the
\* handle returned for a pair was constructed for that pair's mode and
\* deployment.
C26_PairsNeverShareAnEntry ==
    /\ \A p, q \in DOMAIN served : p # q => served[p] \cap served[q] = {}
    /\ \A p \in DOMAIN served : \A h \in served[p] :
          /\ h.kind = FactoryOf(p[1])
          /\ GetAzureModelConfig(p[2]).exc = "none"
          /\ h.dep = GetAzureModelConfig(p[2]).model_id

\* C27: the handle that serves a request is bound to the request's
\* deployment_name: after any sequence of route_multi_intent calls with
\* different deployments, a multi-intent request with a configured
\* deployment d is executed, by an orchestrator that was constructed with d.
C27_OrchestratorBoundToDeployment ==
    (/\ Ended
     /\ ret.fn = "route_multi_intent"
     /\ ret.path = "multi"
     /\ GetAzureModelConfig(ret.dep).exc = "none"
     /\ ret.exc # "AgentError") =>
        /\ ret.status = "returned"
        /\ ret.handle.kind = "multi"
        /\ ret.handle.dep = GetAzureModelConfig(ret.dep).model_id

\* C28: the mode_used that route_multi_intent and route_to_specialist return
\* is "multi-agent" or one of the six GenerationMode values, and it names the
\* specialist that produced the response, for every explicit_mode, every
\* Decomposer output and every Classifier output.
C28_ModeUsedNamesTheSpecialist ==
    (Ended /\ ret.fn \in RouteFns /\ ret.status = "returned") =>
        \/ /\ ret.mode_used = JStr("multi-agent")
           /\ ret.handle.kind = "multi"
        \/ /\ IsGenerationMode(ret.mode_used)
           /\ ret.handle.kind = StandaloneFactory(ret.mode_used.s)
           /\ ret.ran = <<ret.handle.kind>>

\* C30: a get_or_create_specialist call that interleaves with a concurrent
\* clear_agent_cache still returns a handle for its key: a clear that runs
\* between the call's cache test or insert and its final read of the cache
\* never makes the call fail with a missing-key error.
C30_ClearNeverBreaksALookup ==
    (Ended /\ ret.fn = "get_or_create_specialist" /\ ret.exc # "ValueError") =>
        /\ ret.status = "returned"
        /\ ret.exc # "KeyError"
        /\ ret.handle # NoHandle

\* C29: if constructing a specialist raises during get_or_create_specialist
\* the cache is left as it was, without an entry for that key and with every
\* other entry untouched, so a later call for the key constructs again; the
\* cache never holds a missing or partial handle.
C29_FailedConstructionLeavesCache ==
    /\ [][\A t \in Threads :
            (pc[t] = "goc_create" /\ pc'[t] = "idle") =>
                /\ agentCache' = agentCache
                /\ built' = built
                /\ CacheMiss(CacheKey(loc[t].mode, loc[t].dep))'
                /\ ret'.handle = NoHandle]_vars
    /\ [](\A k \in DOMAIN agentCache :
            /\ agentCache[k] # NoHandle
            /\ k \in DOMAIN built
            /\ \E i \in DOMAIN built[k] : built[k][i] = agentCache[k].id)

\* a construction that raised for an unknown deployment while the cache held
\* the handle of another key
C29_Witness ==
    /\ Ended
    /\ ret.fn = "get_or_create_specialist"
    /\ ret.status = "raised"
    /\ ret.exc = "ValueError"
    /\ ret.dep = JStr("nope")
    /\ agentCache # EmptyFn
    /\ CacheKey(ret.mode, ret.dep) \notin DOMAIN agentCache

\* C8: a request the Decomposer reports as single-intent runs exactly one
\* specialist, the one of primary_intent, without calling the Mode
\* Classifier, and mode_used is the mode of the specialist that ran.
C8_SingleIntentRoutesPrimary ==
    (Ended /\ ret.fn = "route_multi_intent" /\ ret.path = "single") =>
        /\ ret.classified = 0
        /\ ret.status = "returned" =>
              /\ Len(ret.ran) = 1
              /\ IsGenerationMode(ret.mode_used)
              /\ ret.ran[1] = StandaloneFactory(ret.mode_used.s)

\* C9: once clear_agent_cache has returned the cache is empty and the
\* orchestrator handle unset, a later resolve returns a handle constructed
\* after the clear, and a later multi-intent request constructs a fresh
\* orchestrator handle (unless the deployment is unknown).
C9_ClearThenFreshHandles ==
    /\ (Ended /\ ret.fn = "clear_agent_cache") =>
          agentCache = EmptyFn /\ multiCache = NoHandle
    /\ (cleared /\ Ended /\ ret.fn = "get_or_create_specialist"
        /\ ret.status = "returned") =>
          built[CacheKey(ret.mode, ret.dep)] = <<ret.handle.id>>
    /\ (cleared /\ Ended /\ ret.path = "multi" /\ ret.exc # "ValueError") =>
          /\ ret.handle.kind = "multi"
          /\ multiCache = ret.handle

====
